---- MODULE Spec2Model ----
(***************************************************************************)
(* Model of zcash_primitives/src/transaction/sighash.rs: signature_hash,   *)
(* the Overwinter (ZIP 143) transparent signature hash, with its version   *)
(* dispatcher SigHashVersion::from_tx and its four sub-hash builders.      *)
(*                                                                         *)
(* Representation.                                                         *)
(*   u32    a record [hi, lo] of two 16-bit limbs (value hi * 2^16 + lo),  *)
(*          so that the whole 32-bit range is covered                      *)
(*   u64    a record [hi, lo] of two u32                                   *)
(*   bytes  sequences of integers: 0..255 are literal bytes; byte i of the *)
(*          k-th distinct BLAKE2b digest computed in a behaviour is the    *)
(*          integer 256 * k + i (see Blake2b)                              *)
(*   usize  a natural number; vectors are indexed from 0 in the source and *)
(*          from 1 here, so tx.vin[n] is t.vin[n + 1]                      *)
(***************************************************************************)
EXTENDS Integers, Sequences, FiniteSets, TLC

(* ------------------------------ bounds -------------------------------- *)
MaxVin == 2
MaxVout == 2
MaxJoinsplits == 2
MaxIndex == 2
MaxCalls == 2

(* ----------------------------- constants ------------------------------ *)
ZCASH_SIGHASH_PERSONALIZATION_PREFIX ==
    <<90, 99, 97, 115, 104, 83, 105, 103, 72, 97, 115, 104>>
ZCASH_PREVOUTS_HASH_PERSONALIZATION ==
    <<90, 99, 97, 115, 104, 80, 114, 101, 118, 111, 117, 116, 72, 97, 115, 104>>
ZCASH_SEQUENCE_HASH_PERSONALIZATION ==
    <<90, 99, 97, 115, 104, 83, 101, 113, 117, 101, 110, 99, 72, 97, 115, 104>>
ZCASH_OUTPUTS_HASH_PERSONALIZATION ==
    <<90, 99, 97, 115, 104, 79, 117, 116, 112, 117, 116, 115, 72, 97, 115, 104>>
ZCASH_JOINSPLITS_HASH_PERSONALIZATION ==
    <<90, 99, 97, 115, 104, 74, 83, 112, 108, 105, 116, 115, 72, 97, 115, 104>>

SIGHASH_NONE == 2
SIGHASH_SINGLE == 3
SIGHASH_MASK == 31
SIGHASH_ANYONECANPAY == 128

OVERWINTER_VERSION_GROUP_ID == 63210096

(* Output length passed to Blake2b::with_params. *)
BLAKE2B_OUTLEN == 32

(* --------------------------- machine words ---------------------------- *)
(* A u32 literal below 2^31. *)
U32(n) == [hi |-> n \div 65536, lo |-> n % 65536]

RECURSIVE BitAnd16(_, _)
BitAnd16(a, b) ==
    IF a = 0 \/ b = 0 THEN 0
    ELSE (a % 2) * (b % 2) + 2 * BitAnd16(a \div 2, b \div 2)

(* The & operator on u32. *)
BitAnd(a, b) == [hi |-> BitAnd16(a.hi, b.hi), lo |-> BitAnd16(a.lo, b.lo)]

(* write_u32::<LittleEndian> *)
write_u32_LE(w) == <<w.lo % 256, w.lo \div 256, w.hi % 256, w.hi \div 256>>

(* write_u64::<LittleEndian> *)
write_u64_LE(a) == write_u32_LE(a.lo) \o write_u32_LE(a.hi)

(* vec![0; 32] and [0; 32] *)
Zero32 == [i \in 1..32 |-> 0]

RECURSIVE Concat(_)
Concat(ss) == IF ss = <<>> THEN <<>> ELSE Head(ss) \o Concat(Tail(ss))

(* ------------------------------ BLAKE2b ------------------------------- *)
(* The hash is a collision-free function of (personalization, data): the   *)
(* k-th distinct pair hashed in a behaviour gets the digest bytes          *)
(* 256k, 256k + 1, ..., which are no literal bytes; hashing the same pair  *)
(* again gives the same digest.  or is the list of pairs hashed so far.    *)
Blake2bSeen(or, p, d) == \E k \in 1..Len(or) : or[k] = [personal |-> p, data |-> d]

Blake2bDigest(k) == [i \in 1..BLAKE2B_OUTLEN |-> 256 * k + (i - 1)]

(* Mutant: a hash that is salted afresh on every call. *)
Blake2bSalted(or, p, d) ==
    LET or2 == Append(or, [personal |-> p, data |-> d])
    IN [oracle |-> or2, digest |-> Blake2bDigest(Len(or2))]

(* with_params(32, &[], &[], p); update(d); finalize().as_ref().to_vec() *)
Blake2b(or, p, d) ==
    LET or2 == IF Blake2bSeen(or, p, d) THEN or
               ELSE Append(or, [personal |-> p, data |-> d])
        k == CHOOSE j \in 1..Len(or2) : or2[j] = [personal |-> p, data |-> d]
    IN [oracle |-> or2, digest |-> Blake2bDigest(k)]

(* --------------------------- serialization ---------------------------- *)
(* OutPoint::write: the 32-byte hash, then the index as 4 bytes LE. *)
OutPointWrite(o) == o.hash \o write_u32_LE(o.n)

(* Script::write: CompactSize length (one byte below 253), then the bytes. *)
ScriptWrite(s) == <<Len(s)>> \o s

(* TxOut::write: the value as 8 bytes LE, then the script. *)
TxOutWrite(o) == write_u64_LE(o.value) \o ScriptWrite(o.script_pubkey)

(* JSDescription::write: opaque; a joinsplit is held as its encoding. *)
JSDescriptionWrite(js) == js

(* Transaction::header: the version with bit 31 set when overwintered. *)
header(t) ==
    IF t.overwintered
    THEN [hi |-> (t.version.hi % 32768) + 32768, lo |-> t.version.lo]
    ELSE t.version

(* --------------------------- sub-hash builders ------------------------ *)
prevout_data(t) == Concat([i \in 1..Len(t.vin) |-> OutPointWrite(t.vin[i].prevout)])

prevout_hash(or, t) == Blake2b(or, ZCASH_PREVOUTS_HASH_PERSONALIZATION, prevout_data(t))

sequence_data(t) == Concat([i \in 1..Len(t.vin) |-> write_u32_LE(t.vin[i].sequence)])

sequence_hash(or, t) == Blake2b(or, ZCASH_SEQUENCE_HASH_PERSONALIZATION, sequence_data(t))

outputs_data(t) == Concat([i \in 1..Len(t.vout) |-> TxOutWrite(t.vout[i])])

outputs_hash(or, t) == Blake2b(or, ZCASH_OUTPUTS_HASH_PERSONALIZATION, outputs_data(t))

(* Mutant: the public key is written before the joinsplits. *)
joinsplits_data_key_first(t) ==
    t.joinsplit_pubkey
        \o Concat([i \in 1..Len(t.joinsplits) |-> JSDescriptionWrite(t.joinsplits[i])])

joinsplits_data(t) ==
    Concat([i \in 1..Len(t.joinsplits) |-> JSDescriptionWrite(t.joinsplits[i])])
        \o t.joinsplit_pubkey

joinsplits_hash(or, t) ==
    Blake2b(or, ZCASH_JOINSPLITS_HASH_PERSONALIZATION, joinsplits_data(t))

(* ------------------------------ macros -------------------------------- *)
(* update_u32!(h, value, tmp) *)
update_u32(hh, value) == [hh EXCEPT !.data = @ \o write_u32_LE(value)]

(* h.update(&bytes) *)
update(hh, bytes) == [hh EXCEPT !.data = @ \o bytes]

(* Mutant: an excluded sub-hash is left out instead of zero-filled. *)
update_hash_omit(hh, cond, value) == IF cond THEN update(hh, value) ELSE hh

(* update_hash!(h, cond, value) *)
update_hash(hh, cond, value) == IF cond THEN update(hh, value) ELSE update(hh, Zero32)

(* --------------------------- version dispatch ------------------------- *)
(* Mutant: every overwintered transaction is taken as Overwinter. *)
from_tx_any_group(t) == IF t.overwintered THEN "Overwinter" ELSE "Sprout"

(* SigHashVersion::from_tx; "unimplemented" is the unimplemented!() panic. *)
from_tx(t) ==
    IF t.overwintered
    THEN IF t.version_group_id = U32(OVERWINTER_VERSION_GROUP_ID)
         THEN "Overwinter"
         ELSE "unimplemented"
    ELSE "Sprout"

(* ---------------------------- flag decoding --------------------------- *)
base_type(ht) == BitAnd(ht, U32(SIGHASH_MASK))

(* hash_type & SIGHASH_ANYONECANPAY == 0 *)
prevouts_included(ht) == BitAnd(ht, U32(SIGHASH_ANYONECANPAY)) = U32(0)

(* Mutant: the sequence hash is dropped for NONE only. *)
sequence_included_none_only(ht) ==
    /\ BitAnd(ht, U32(SIGHASH_ANYONECANPAY)) = U32(0)
    /\ base_type(ht) # U32(SIGHASH_NONE)

sequence_included(ht) ==
    /\ BitAnd(ht, U32(SIGHASH_ANYONECANPAY)) = U32(0)
    /\ base_type(ht) # U32(SIGHASH_SINGLE)
    /\ base_type(ht) # U32(SIGHASH_NONE)

(* Mutant: SINGLE with an index past the outputs commits to all outputs. *)
hash_outputs_single_falls_back(or, t, ht, ti) ==
    IF base_type(ht) # U32(SIGHASH_SINGLE) /\ base_type(ht) # U32(SIGHASH_NONE)
    THEN outputs_hash(or, t)
    ELSE IF base_type(ht) = U32(SIGHASH_SINGLE) /\ ti.some /\ ti.n < Len(t.vout)
    THEN Blake2b(or, ZCASH_OUTPUTS_HASH_PERSONALIZATION, TxOutWrite(t.vout[ti.n + 1]))
    ELSE IF base_type(ht) = U32(SIGHASH_SINGLE)
    THEN outputs_hash(or, t)
    ELSE [oracle |-> or, digest |-> Zero32]

(* let hash_outputs = if ... else if ... else vec![0; 32] *)
hash_outputs_of(or, t, ht, ti) ==
    IF base_type(ht) # U32(SIGHASH_SINGLE) /\ base_type(ht) # U32(SIGHASH_NONE)
    THEN outputs_hash(or, t)
    ELSE IF base_type(ht) = U32(SIGHASH_SINGLE) /\ ti.some /\ ti.n < Len(t.vout)
    THEN Blake2b(or, ZCASH_OUTPUTS_HASH_PERSONALIZATION, TxOutWrite(t.vout[ti.n + 1]))
    ELSE [oracle |-> or, digest |-> Zero32]

(* Mutant: the branch id is left out of the personalization. *)
personalization_no_branch(branch) ==
    ZCASH_SIGHASH_PERSONALIZATION_PREFIX \o <<0, 0, 0, 0>>

(* personal[..12] = prefix; personal[12..] = branch id, little-endian *)
personalization(branch) ==
    ZCASH_SIGHASH_PERSONALIZATION_PREFIX \o write_u32_LE(branch)

(* Mutant: the sequence number of the first input is written. *)
transparent_input_data_first_sequence(t, ti) ==
    OutPointWrite(t.vin[ti.n + 1].prevout)
        \o ScriptWrite(ti.script_code)
        \o write_u64_LE(ti.amount)
        \o write_u32_LE(t.vin[1].sequence)

(* The data buffer of the if-let body, for n < tx.vin.len(). *)
transparent_input_data(t, ti) ==
    OutPointWrite(t.vin[ti.n + 1].prevout)
        \o ScriptWrite(ti.script_code)
        \o write_u64_LE(ti.amount)
        \o write_u32_LE(t.vin[ti.n + 1].sequence)

(* ------------------------------ inputs -------------------------------- *)
TxInOf(i) ==
    [prevout |-> [hash |-> [k \in 1..32 |-> (17 * i + k) % 256], n |-> U32(i - 1)],
     sequence |-> [hi |-> 65535, lo |-> 65536 - i]]

TxOutOf(i) ==
    [value |-> [hi |-> U32(i - 1), lo |-> U32(1000 * i)],
     script_pubkey |-> [k \in 1..i |-> 117 + k]]

JSDescriptionOf(i) == <<200 + i, 1, 2>>

VersionGroupIds ==
    {U32(OVERWINTER_VERSION_GROUP_ID), [hi |-> 35119, lo |-> 8325]}

Transactions ==
    {[overwintered |-> ow,
      version |-> IF ow THEN U32(3) ELSE U32(2),
      version_group_id |-> vg,
      vin |-> [i \in 1..ni |-> TxInOf(i)],
      vout |-> [i \in 1..no |-> TxOutOf(i)],
      joinsplits |-> [i \in 1..nj |-> JSDescriptionOf(i)],
      joinsplit_pubkey |-> [k \in 1..32 |-> 64 + k],
      lock_time |-> U32(500000),
      expiry_height |-> [hi |-> 7, lo |-> 41]] :
        ow \in BOOLEAN, vg \in VersionGroupIds,
        ni \in 0..MaxVin, no \in 0..MaxVout, nj \in 0..MaxJoinsplits}

(* base type, ANYONECANPAY bit, and bits outside both masks *)
HashTypes ==
    {[hi |-> e[1], lo |-> b + a + e[2]] :
        b \in {0, 1, 2, 3, 4}, a \in {0, SIGHASH_ANYONECANPAY},
        e \in {<<0, 0>>, <<0, 64>>, <<32769, 0>>}}

BranchIds == {[hi |-> 23464, lo |-> 6937], U32(0)}

NoInput == [some |-> FALSE, n |-> 0, script_code |-> <<>>, amount |-> [hi |-> U32(0), lo |-> U32(0)]]

TransparentInputs ==
    {NoInput} \cup
    {[some |-> TRUE, n |-> n, script_code |-> sa[1], amount |-> sa[2]] :
        n \in 0..MaxIndex,
        sa \in {<<<<>>, [hi |-> U32(0), lo |-> U32(50000)]>>,
                <<<<118, 169>>, [hi |-> [hi |-> 32768, lo |-> 0], lo |-> U32(1)]>>}}

NoCall ==
    [branch |-> U32(0), personal |-> <<>>, data |-> <<>>, hash_outputs |-> <<>>,
     result |-> <<>>, outcome |-> "none"]

(* ------------------------------- state -------------------------------- *)
VARIABLES tx, consensus_branch_id, hash_type, transparent_input,
          pc, sigversion, hash_outputs, personal, h, result, outcome,
          oracle, calls, prev

vars == <<tx, consensus_branch_id, hash_type, transparent_input,
          pc, sigversion, hash_outputs, personal, h, result, outcome,
          oracle, calls, prev>>

args == <<tx, consensus_branch_id, hash_type, transparent_input>>

NoHasher == [personal |-> <<>>, data |-> <<>>]

Init ==
    /\ tx \in Transactions
    /\ consensus_branch_id \in BranchIds
    /\ hash_type \in HashTypes
    /\ transparent_input \in TransparentInputs
    /\ pc = "from_tx"
    /\ sigversion = "none"
    /\ hash_outputs = <<>>
    /\ personal = <<>>
    /\ h = NoHasher
    /\ result = <<>>
    /\ outcome = "none"
    /\ oracle = <<>>
    /\ calls = 1
    /\ prev = NoCall

(* let sigversion = SigHashVersion::from_tx(tx); *)
FromTx ==
    /\ pc = "from_tx"
    /\ IF from_tx(tx) = "unimplemented"
       THEN /\ outcome' = "unimplemented"
            /\ pc' = "done"
            /\ UNCHANGED sigversion
       ELSE /\ sigversion' = from_tx(tx)
            /\ pc' = "match"
            /\ UNCHANGED outcome
    /\ UNCHANGED <<args, hash_outputs, personal, h, result, oracle, calls, prev>>

(* SigHashVersion::Sprout => unimplemented!() *)
MatchSprout ==
    /\ pc = "match"
    /\ sigversion = "Sprout"
    /\ outcome' = "unimplemented"
    /\ pc' = "done"
    /\ UNCHANGED <<args, sigversion, hash_outputs, personal, h, result, oracle, calls, prev>>

(* SigHashVersion::Overwinter => { let hash_outputs = ...; *)
HashOutputs ==
    /\ pc = "match"
    /\ sigversion = "Overwinter"
    /\ LET r == hash_outputs_of(oracle, tx, hash_type, transparent_input)
       IN /\ hash_outputs' = r.digest
          /\ oracle' = r.oracle
    /\ pc' = "personal"
    /\ UNCHANGED <<args, sigversion, personal, h, result, outcome, calls, prev>>

(* let mut personal = ...; let mut h = Blake2b::with_params(32, &[], &[], &personal); *)
Personal ==
    /\ pc = "personal"
    /\ personal' = personalization(consensus_branch_id)
    /\ h' = [personal |-> personalization(consensus_branch_id), data |-> <<>>]
    /\ pc' = "header"
    /\ UNCHANGED <<args, sigversion, hash_outputs, result, outcome, oracle, calls, prev>>

(* update_u32!(h, tx.header(), tmp); update_u32!(h, tx.version_group_id, tmp); *)
UpdateHeader ==
    /\ pc = "header"
    /\ h' = update_u32(update_u32(h, header(tx)), tx.version_group_id)
    /\ pc' = "prevouts"
    /\ UNCHANGED <<args, sigversion, hash_outputs, personal, result, outcome, oracle, calls, prev>>

(* update_hash!(h, hash_type & SIGHASH_ANYONECANPAY == 0, prevout_hash(tx)); *)
UpdatePrevouts ==
    /\ pc = "prevouts"
    /\ IF prevouts_included(hash_type)
       THEN LET r == prevout_hash(oracle, tx)
            IN /\ h' = update_hash(h, TRUE, r.digest)
               /\ oracle' = r.oracle
       ELSE /\ h' = update_hash(h, FALSE, <<>>)
            /\ UNCHANGED oracle
    /\ pc' = "sequence"
    /\ UNCHANGED <<args, sigversion, hash_outputs, personal, result, outcome, calls, prev>>

(* update_hash!(h, ... , sequence_hash(tx)); *)
UpdateSequence ==
    /\ pc = "sequence"
    /\ IF sequence_included(hash_type)
       THEN LET r == sequence_hash(oracle, tx)
            IN /\ h' = update_hash(h, TRUE, r.digest)
               /\ oracle' = r.oracle
       ELSE /\ h' = update_hash(h, FALSE, <<>>)
            /\ UNCHANGED oracle
    /\ pc' = "outputs"
    /\ UNCHANGED <<args, sigversion, hash_outputs, personal, result, outcome, calls, prev>>

(* h.update(&hash_outputs); *)
UpdateOutputs ==
    /\ pc = "outputs"
    /\ h' = update(h, hash_outputs)
    /\ pc' = "joinsplits"
    /\ UNCHANGED <<args, sigversion, hash_outputs, personal, result, outcome, oracle, calls, prev>>

(* update_hash!(h, !tx.joinsplits.is_empty(), joinsplits_hash(tx)); *)
UpdateJoinsplits ==
    /\ pc = "joinsplits"
    /\ IF tx.joinsplits # <<>>
       THEN LET r == joinsplits_hash(oracle, tx)
            IN /\ h' = update_hash(h, TRUE, r.digest)
               /\ oracle' = r.oracle
       ELSE /\ h' = update_hash(h, FALSE, <<>>)
            /\ UNCHANGED oracle
    /\ pc' = "tail"
    /\ UNCHANGED <<args, sigversion, hash_outputs, personal, result, outcome, calls, prev>>

(* update_u32!(h, tx.lock_time, tmp); ...expiry_height...; ...hash_type... *)
UpdateTail ==
    /\ pc = "tail"
    /\ h' = update_u32(update_u32(update_u32(h, tx.lock_time), tx.expiry_height), hash_type)
    /\ pc' = "transparent_input"
    /\ UNCHANGED <<args, sigversion, hash_outputs, personal, result, outcome, oracle, calls, prev>>

(* if let Some((n, script_code, amount)) = transparent_input { ... }       *)
(* tx.vin[n] panics when n >= tx.vin.len().                                *)
TransparentInput ==
    /\ pc = "transparent_input"
    /\ IF ~transparent_input.some
       THEN /\ pc' = "finalize"
            /\ UNCHANGED <<h, outcome>>
       ELSE IF transparent_input.n >= Len(tx.vin)
       THEN /\ outcome' = "index_out_of_bounds"
            /\ pc' = "done"
            /\ UNCHANGED h
       ELSE /\ h' = update(h, transparent_input_data(tx, transparent_input))
            /\ pc' = "finalize"
            /\ UNCHANGED outcome
    /\ UNCHANGED <<args, sigversion, hash_outputs, personal, result, oracle, calls, prev>>

(* h.finalize().as_ref().to_vec() *)
Finalize ==
    /\ pc = "finalize"
    /\ LET r == Blake2b(oracle, h.personal, h.data)
       IN /\ result' = r.digest
          /\ oracle' = r.oracle
    /\ outcome' = "digest"
    /\ pc' = "done"
    /\ UNCHANGED <<args, sigversion, hash_outputs, personal, h, calls, prev>>

(* The caller calls signature_hash again on the same transaction, with the *)
(* same hash_type and signing input and any consensus_branch_id.           *)
CallAgain ==
    /\ pc = "done"
    /\ calls < MaxCalls
    /\ \E b \in BranchIds : consensus_branch_id' = b
    /\ prev' = [branch |-> consensus_branch_id, personal |-> personal, data |-> h.data,
                hash_outputs |-> hash_outputs, result |-> result, outcome |-> outcome]
    /\ calls' = calls + 1
    /\ pc' = "from_tx"
    /\ sigversion' = "none"
    /\ hash_outputs' = <<>>
    /\ personal' = <<>>
    /\ h' = NoHasher
    /\ result' = <<>>
    /\ outcome' = "none"
    /\ UNCHANGED <<tx, hash_type, transparent_input, oracle>>

Next ==
    \/ FromTx
    \/ MatchSprout
    \/ HashOutputs
    \/ Personal
    \/ UpdateHeader
    \/ UpdatePrevouts
    \/ UpdateSequence
    \/ UpdateOutputs
    \/ UpdateJoinsplits
    \/ UpdateTail
    \/ TransparentInput
    \/ Finalize
    \/ CallAgain

Spec == Init /\ [][Next]_vars

TypeOK ==
    /\ pc \in {"from_tx", "match", "personal", "header", "prevouts", "sequence",
               "outputs", "joinsplits", "tail", "transparent_input", "finalize", "done"}
    /\ outcome \in {"none", "digest", "unimplemented", "index_out_of_bounds"}
    /\ sigversion \in {"none", "Sprout", "Overwinter"}
    /\ calls \in 1..MaxCalls

(* ------------------------ reading the state -------------------------- *)
AnyoneCanPay(ht) == (ht.lo \div 128) % 2 = 1

BaseOf(ht) == ht.lo % 32

Recognised(t) == t.overwintered /\ t.version_group_id = [hi |-> 964, lo |-> 33392]

(* The nine fixed segments have been fed to h. *)
PrefixFed ==
    \/ pc \in {"transparent_input", "finalize"}
    \/ pc = "done" /\ outcome \in {"digest", "index_out_of_bounds"}

(* The call has run past the optional signing-input suffix. *)
SuffixFed == pc = "finalize" \/ (pc = "done" /\ outcome = "digest")

Seg(a, b) == SubSeq(h.data, a, b)

(* The digest of (p, d) when it has been computed, <<>> when it has not. *)
DigestOf(p, d) ==
    IF Blake2bSeen(oracle, p, d)
    THEN Blake2bDigest(CHOOSE k \in 1..Len(oracle) : oracle[k] = [personal |-> p, data |-> d])
    ELSE <<>>

SingleOutputs ==
    {DigestOf(ZCASH_OUTPUTS_HASH_PERSONALIZATION, TxOutWrite(tx.vout[i])) : i \in 1..Len(tx.vout)}

(* ------------------------------ claims -------------------------------- *)
(* C1: once the fixed part of the message is fed, it is the nine segments  *)
(* header, version_group_id, prevouts, sequence, outputs, joinsplits,      *)
(* lock_time, expiry_height, hash_type in this order; each conditional     *)
(* segment is either a 32-byte digest or 32 zero bytes, never left out, so *)
(* the part before the signing-input suffix is 148 bytes long.             *)
C1_NineSegments ==
    PrefixFed =>
        /\ Len(h.data) >= 148
        /\ (pc = "transparent_input" => Len(h.data) = 148)
        /\ Seg(1, 4) = write_u32_LE(header(tx))
        /\ Seg(5, 8) = write_u32_LE(tx.version_group_id)
        /\ Seg(9, 40) \in
             {Zero32, DigestOf(ZCASH_PREVOUTS_HASH_PERSONALIZATION, prevout_data(tx))}
        /\ Seg(41, 72) \in
             {Zero32, DigestOf(ZCASH_SEQUENCE_HASH_PERSONALIZATION, sequence_data(tx))}
        /\ Seg(73, 104) \in
             {Zero32, DigestOf(ZCASH_OUTPUTS_HASH_PERSONALIZATION, outputs_data(tx))}
                \cup SingleOutputs
        /\ Seg(105, 136) \in
             {Zero32, DigestOf(ZCASH_JOINSPLITS_HASH_PERSONALIZATION, joinsplits_data(tx))}
        /\ Seg(137, 140) = write_u32_LE(tx.lock_time)
        /\ Seg(141, 144) = write_u32_LE(tx.expiry_height)
        /\ Seg(145, 148) = write_u32_LE(hash_type)
        /\ Seg(145, 148) =
             <<hash_type.lo % 256, hash_type.lo \div 256,
               hash_type.hi % 256, hash_type.hi \div 256>>

(* All four conditional segments are excluded and the message is still     *)
(* 148 bytes, with a hash_type that has bits above the low byte.           *)
C1_Witness ==
    /\ pc = "transparent_input"
    /\ AnyoneCanPay(hash_type)
    /\ BaseOf(hash_type) = 2
    /\ hash_type.hi # 0
    /\ tx.joinsplits = <<>>
    /\ Len(h.data) = 148
    /\ Seg(9, 136) = Zero32 \o Zero32 \o Zero32 \o Zero32

(* C2: the prevouts segment is the prevouts hash exactly when              *)
(* anyone_can_pay is false, whatever base_type is, and zero otherwise; the *)
(* sequence segment is the sequence hash exactly when anyone_can_pay is    *)
(* false and base_type is neither NONE nor SINGLE, and zero otherwise.     *)
C2_PrevoutsSequenceGating ==
    PrefixFed =>
        /\ Seg(9, 40) =
             IF ~AnyoneCanPay(hash_type)
             THEN DigestOf(ZCASH_PREVOUTS_HASH_PERSONALIZATION, prevout_data(tx))
             ELSE Zero32
        /\ Seg(41, 72) =
             IF ~AnyoneCanPay(hash_type) /\ BaseOf(hash_type) \notin {2, 3}
             THEN DigestOf(ZCASH_SEQUENCE_HASH_PERSONALIZATION, sequence_data(tx))
             ELSE Zero32

(* SINGLE without ANYONECANPAY: prevouts committed, sequence zeroed. *)
C2_Witness ==
    /\ PrefixFed
    /\ ~AnyoneCanPay(hash_type)
    /\ BaseOf(hash_type) = 3
    /\ Len(tx.vin) = 2
    /\ Seg(9, 40) # Zero32
    /\ Seg(41, 72) = Zero32

(* C3: the outputs segment depends on base_type alone: zero for NONE; for  *)
(* SINGLE the hash of the output at the signing input's index when a       *)
(* signing input is given and the index is below the number of outputs,    *)
(* zero otherwise; for every other base_type the hash of all outputs.      *)
C3_OutputsMode ==
    PrefixFed =>
        Seg(73, 104) =
            IF BaseOf(hash_type) = 2 THEN Zero32
            ELSE IF BaseOf(hash_type) = 3
            THEN IF transparent_input.some /\ transparent_input.n < Len(tx.vout)
                 THEN DigestOf(ZCASH_OUTPUTS_HASH_PERSONALIZATION,
                               TxOutWrite(tx.vout[transparent_input.n + 1]))
                 ELSE Zero32
            ELSE DigestOf(ZCASH_OUTPUTS_HASH_PERSONALIZATION, outputs_data(tx))

(* SINGLE with ANYONECANPAY and the second of two outputs selected. *)
C3_Witness ==
    /\ PrefixFed
    /\ BaseOf(hash_type) = 3
    /\ AnyoneCanPay(hash_type)
    /\ transparent_input.some
    /\ transparent_input.n = 1
    /\ Len(tx.vout) = 2
    /\ Seg(73, 104) \notin
         {Zero32, DigestOf(ZCASH_OUTPUTS_HASH_PERSONALIZATION, outputs_data(tx))}

(* C4: under SINGLE, every signing input whose index is at or past the     *)
(* number of outputs makes the call return a 32-byte digest whose outputs  *)
(* segment is zero, also when the index is at or past the number of inputs.*)
C4_SingleOutOfRangeReturnsDigest ==
    ( /\ pc = "done"
      /\ Recognised(tx)
      /\ BaseOf(hash_type) = 3
      /\ transparent_input.some
      /\ transparent_input.n >= Len(tx.vout) ) =>
        /\ outcome = "digest"
        /\ Len(result) = 32
        /\ Seg(73, 104) = Zero32

(* C5: with a signing input whose index names an input of the transaction, *)
(* the message continues after hash_type with that input's OutPoint (36    *)
(* bytes), the caller's script code with its length prefix, the caller's   *)
(* amount (8 bytes LE) and that input's own sequence number (4 bytes LE);  *)
(* without a signing input the message ends at hash_type, so the two       *)
(* messages differ.                                                        *)
C5_SigningInputSuffix ==
    SuffixFed =>
        IF transparent_input.some
        THEN /\ transparent_input.n < Len(tx.vin)
             /\ Len(h.data) = 148 + 36 + 1 + Len(transparent_input.script_code) + 8 + 4
             /\ Seg(149, Len(h.data)) =
                  tx.vin[transparent_input.n + 1].prevout.hash
                    \o write_u32_LE(tx.vin[transparent_input.n + 1].prevout.n)
                    \o <<Len(transparent_input.script_code)>>
                    \o transparent_input.script_code
                    \o write_u32_LE(transparent_input.amount.lo)
                    \o write_u32_LE(transparent_input.amount.hi)
                    \o write_u32_LE(tx.vin[transparent_input.n + 1].sequence)
        ELSE Len(h.data) = 148

(* The second of two inputs is signed, with a non-empty script code and an *)
(* amount whose top bit is set.                                            *)
C5_Witness ==
    /\ pc = "done"
    /\ outcome = "digest"
    /\ transparent_input.some
    /\ transparent_input.n = 1
    /\ transparent_input.script_code # <<>>
    /\ transparent_input.amount.hi.hi >= 32768
    /\ Len(h.data) > 148

(* C6: every call ends with a complete 32-byte digest or with the          *)
(* unsupported-version condition, whatever the value of input_index.       *)
C6_TwoOutcomes ==
    pc = "done" =>
        \/ outcome = "digest" /\ Len(result) = 32
        \/ outcome = "unimplemented" /\ result = <<>>

(* C7: the joinsplits segment is zero when the joinsplits list is empty    *)
(* and otherwise the ZcashJSplitsHash hash of all joinsplits in list order *)
(* followed by the joinsplit public key, whatever hash_type and the        *)
(* signing input are.                                                      *)
C7_JoinsplitsSegment ==
    PrefixFed =>
        Seg(105, 136) =
            IF Len(tx.joinsplits) = 0 THEN Zero32
            ELSE DigestOf(<<90, 99, 97, 115, 104, 74, 83, 112, 108, 105, 116, 115, 72, 97, 115, 104>>,
                          Concat(tx.joinsplits) \o tx.joinsplit_pubkey)

(* Two joinsplits are hashed under NONE with ANYONECANPAY. *)
C7_Witness ==
    /\ PrefixFed
    /\ Len(tx.joinsplits) = 2
    /\ BaseOf(hash_type) = 2
    /\ AnyoneCanPay(hash_type)
    /\ transparent_input.some
    /\ Seg(105, 136) # Zero32

(* C8: the personalization of the final hash is "ZcashSigHash" followed by *)
(* consensus_branch_id as 4 bytes LE, 16 bytes in all; of two calls that   *)
(* differ only in consensus_branch_id the tags differ while the outputs    *)
(* hash and the whole hashed message are the same.                         *)
C8_BranchIdOnlyInTag ==
    /\ (sigversion = "Overwinter" /\ pc \notin {"from_tx", "match", "personal"}) =>
          /\ Len(personal) = 16
          /\ personal =
               <<90, 99, 97, 115, 104, 83, 105, 103, 72, 97, 115, 104>>
                 \o write_u32_LE(consensus_branch_id)
          /\ h.personal = personal
    /\ (pc = "done" /\ outcome = "digest" /\ calls > 1
          /\ consensus_branch_id # prev.branch) =>
          /\ prev.outcome = "digest"
          /\ personal # prev.personal
          /\ hash_outputs = prev.hash_outputs
          /\ h.data = prev.data

(* A second call with another branch id has returned a digest. *)
C8_Witness ==
    /\ pc = "done"
    /\ outcome = "digest"
    /\ calls = 2
    /\ consensus_branch_id # prev.branch
    /\ prev.outcome = "digest"
    /\ result # prev.result

C10_VersionDispatch ==
    /\ pc # "from_tx" => ((sigversion = "Overwinter") <=> Recognised(tx))
    /\ ~Recognised(tx) =>
          /\ pc \in {"from_tx", "match", "done"}
          /\ result = <<>>
          /\ h = NoHasher
          /\ personal = <<>>
          /\ (pc = "done" => outcome = "unimplemented")

(* An overwintered transaction with another version group id was refused. *)
C10_Witness ==
    /\ pc = "done"
    /\ tx.overwintered
    /\ ~Recognised(tx)
    /\ outcome = "unimplemented"
    /\ result = <<>>
====
